---- MODULE Spec2Model ----
(***************************************************************************)
(* Model of scripts/build_wordlists.py: a one-shot batch script that reads *)
(* the WordNet corpus through nltk, builds two filtered, de-duplicated     *)
(* word lists (adjectives, nouns) and writes them to public/names/.        *)
(*                                                                         *)
(* A character is a one-character string; a word (a Python str) is a       *)
(* sequence of characters; a word list is a sequence of words.             *)
(***************************************************************************)
EXTENDS Naturals, Sequences, FiniteSets

VARIABLES
    \* ---- the environment of the script
    corpus,      \* WordNet: for each part of speech the set of its synsets
    present,     \* whether the corpus data is installed (nltk_data)
    dirExists,   \* whether public/names exists
    files,       \* public/names/adjectives.txt and nouns.txt
    \* ---- the process
    pc,          \* position in the __main__ block
    adjectives,  \* the local `adjectives` of __main__
    nouns,       \* the local `nouns` of __main__
    console,     \* lines printed so far
    \* ---- history of the current run (read by the properties only)
    run,         \* number of the current run
    probe,       \* outcome of wn.synsets("dog") in load_wordnet
    fetches,     \* packages handed to nltk.download, in order
    failedAt,    \* the step whose exception ended the run ("" if none)
    completed,   \* the statements of __main__ that returned in this run
    touched,     \* files whose content this run changed
    before,      \* the files as they were when this run started
    repeat,      \* the previous run completed and nothing changed since
    \* ---- application of unique_lower on its own
    ul_pc, ul_words, ul_words2, ul_out, ul_out2

mainVars == <<corpus, present, dirExists, files, pc, adjectives, nouns, console,
              run, probe, fetches, failedAt, completed, touched, before, repeat>>
ulVars == <<ul_pc, ul_words, ul_words2, ul_out, ul_out2>>
vars == <<mainVars, ulVars>>

\* ------------------------------------------------------------------ bounds
\* longest input sequence handed to unique_lower on its own
MaxWords == 3
\* most synsets of one part of speech in the corpus
MaxSynsets == 2
\* most runs of the script in one behaviour
MaxRuns == 2

\* ------------------------------------------------------- characters, words
NL == "\n"
LOWERCASE == <<"a","b","c","d","e","f","g","h","i","j","k","l","m",
               "n","o","p","q","r","s","t","u","v","w","x","y","z">>
UPPERCASE == <<"A","B","C","D","E","F","G","H","I","J","K","L","M",
               "N","O","P","Q","R","S","T","U","V","W","X","Y","Z">>
Letters == {LOWERCASE[i] : i \in 1..26}

\* str.lower() on one character (ASCII: the cased characters of the model)
LowerChar(c) ==
    IF \E i \in 1..26 : UPPERCASE[i] = c
    THEN LOWERCASE[CHOOSE i \in 1..26 : UPPERCASE[i] = c]
    ELSE c

\* w.lower()
lower(w) == [i \in 1..Len(w) |-> LowerChar(w[i])]

\* lemma.replace("_", " ")
replace(w) == [i \in 1..Len(w) |-> IF w[i] = "_" THEN " " ELSE w[i]]

\* length bounds of the filter
MinLen == 2
MaxLen == 12

\* ALNUM.match(w) for ALNUM = re.compile(r"^[a-z]+$"): one or more of a-z from
\* the start, up to the end of the string; Python's `$` also matches just
\* before a newline that ends the string.
ALNUM_match(w) ==
    \/ /\ Len(w) >= 1
       /\ \A i \in 1..Len(w) : w[i] \in Letters
    \/ /\ Len(w) >= 2
       /\ w[Len(w)] = NL
       /\ \A i \in 1..(Len(w) - 1) : w[i] \in Letters

\* the loop of unique_lower: words[i..] still to visit, seen and out so far
RECURSIVE unique_lower_loop(_, _, _, _)
unique_lower_loop(words, i, seen, out) ==
    IF i > Len(words) THEN out
    ELSE LET w == lower(words[i]) IN
         IF ALNUM_match(w) /\ MinLen <= Len(w) /\ Len(w) <= MaxLen /\ w \notin seen
         THEN unique_lower_loop(words, i + 1, seen \cup {w}, Append(out, w))
         ELSE unique_lower_loop(words, i + 1, seen, out)

\* a de-duplication that only remembers the word appended last
RECURSIVE unique_lower_last_loop(_, _, _, _)
unique_lower_last_loop(words, i, seen, out) ==
    IF i > Len(words) THEN out
    ELSE LET w == lower(words[i]) IN
         IF ALNUM_match(w) /\ MinLen <= Len(w) /\ Len(w) <= MaxLen /\ w \notin seen
         THEN unique_lower_last_loop(words, i + 1, {w}, Append(out, w))
         ELSE unique_lower_last_loop(words, i + 1, seen, out)

unique_lower_last(words) == unique_lower_last_loop(words, 1, {}, <<>>)

unique_lower(words) == unique_lower_loop(words, 1, {}, <<>>)

\* "\n".join(list)
RECURSIVE join(_)
join(list) ==
    IF Len(list) = 0 THEN <<>>
    ELSE IF Len(list) = 1 THEN list[1]
    ELSE list[1] \o <<NL>> \o join(Tail(list))

\* the iteration orders of a Python set: every sequence that holds each
\* member once
RECURSIVE Orderings(_)
Orderings(S) ==
    IF S = {} THEN {<<>>}
    ELSE UNION {{<<x>> \o rest : rest \in Orderings(S \ {x})} : x \in S}

\* ------------------------------------------------------------------ inputs
W_cat == <<"c","a","t">>
W_Cat == <<"C","a","t">>
W_cat_nl == <<"c","a","t",NL>>
W_a == <<"a">>
W_ox == <<"o","x">>
W_zebra == <<"z","e","b","r","a">>
W_apple == <<"a","p","p","l","e">>
W_happy == <<"h","a","p","p","y">>
W_dogs_breath == <<"d","o","g","s","_","b","r","e","a","t","h">>
W_hippopotamus == <<"h","i","p","p","o","p","o","t","a","m","u","s">>
W_unforgettable == <<"u","n","f","o","r","g","e","t","t","a","b","l","e">>
W_supercalifragil == <<"s","u","p","e","r","c","a","l","i","f","r","a","g","i","l">>

\* ---- the corpus: a synset has a part of speech and its lemma names
LemmaLists ==
    {<<W_Cat, W_cat>>,
     <<W_dogs_breath, W_happy>>,
     <<W_cat_nl>>}
POS == {"ADJ", "ADJ_SAT", "NOUN"}
SynsetUniverse == [pos : POS, lemma_names : LemmaLists]
Corpora == {C \in SUBSET SynsetUniverse : Cardinality(C) <= MaxSynsets}

\* wn.all_synsets(pos=p)
all_synsets(C, p) == {s \in C : s.pos = p}

\* the set built by the two nested loops: every lemma name of every synset of
\* the part of speech, with "_" replaced by " "
lemma_set(C, p) ==
    UNION {{replace(s.lemma_names[i]) : i \in 1..Len(s.lemma_names)} :
            s \in all_synsets(C, p)}

\* the set `adjs` of collect_adjectives with the satellite loop left out
adjs_without_satellites(C) == lemma_set(C, "ADJ")

\* the set `adjs` of collect_adjectives
adjs_of(C) == lemma_set(C, "ADJ") \cup lemma_set(C, "ADJ_SAT")

\* the set `nouns` of collect_nouns
nouns_of(C) == lemma_set(C, "NOUN")

\* ---- files
Absent == [exists |-> FALSE, text |-> <<>>]
StaleText == join(<<W_ox, W_Cat, W_ox>>)
Stale == [exists |-> TRUE, text |-> StaleText]

\* a write that keeps what the file held and adds the new text after it
write_text_append(old, data) == [exists |-> TRUE, text |-> old.text \o data]

\* path.write_text(data): the file, whatever it was, now holds data
write_text(old, data) == [exists |-> TRUE, text |-> data]

\* what a write_text that raises can leave behind: the file as it was (open
\* failed) or, created or truncated, some part of the data
write_text_failed(old, data) ==
    {old} \cup {[exists |-> TRUE, text |-> SubSeq(data, 1, k)] : k \in 0..Len(data)}

\* ---- the __main__ block
\* a __main__ that writes adjectives.txt before it collects the nouns
main_order_interleaved ==
    <<"load_wordnet", "collect_adjectives", "mkdir", "write_adjectives",
      "collect_nouns", "write_nouns", "print_summary">>

\* the statements of the __main__ block, in order
main_order ==
    <<"load_wordnet", "collect_adjectives", "collect_nouns", "mkdir",
      "write_adjectives", "write_nouns", "print_summary">>

\* the statement after statement p ("done" after the last)
next_pc(p) ==
    LET i == CHOOSE k \in 1..Len(main_order) : main_order[k] = p
    IN IF i = Len(main_order) THEN "done" ELSE main_order[i + 1]

\* load_wordnet where the download does not wait for a LookupError
after_probe_always_download(found) == "download_wordnet"

\* try: wn.synsets("dog") / except LookupError: the downloads
after_probe(found) == IF found THEN next_pc("load_wordnet") ELSE "download_wordnet"

ulIdle ==
    /\ ul_pc = "idle"
    /\ ul_words = <<>>
    /\ ul_words2 = <<>>
    /\ ul_out = <<>>
    /\ ul_out2 = <<>>

Init ==
    /\ corpus \in Corpora
    /\ present \in BOOLEAN
    /\ \E fs \in {<<FALSE, Absent>>, <<TRUE, Absent>>, <<TRUE, Stale>>} :
          /\ dirExists = fs[1]
          /\ files = [adjectives |-> fs[2], nouns |-> fs[2]]
    /\ pc = main_order[1]
    /\ adjectives = <<>>
    /\ nouns = <<>>
    /\ console = <<>>
    /\ run = 1
    /\ probe = "none"
    /\ fetches = <<>>
    /\ failedAt = ""
    /\ completed = {}
    /\ touched = {}
    /\ before = files
    /\ repeat = FALSE
    /\ ulIdle

\* an uncaught exception in statement `step` ends the process
Raise(step) ==
    /\ pc' = "aborted"
    /\ failedAt' = step

Finish(step) ==
    /\ pc' = next_pc(step)
    /\ completed' = completed \cup {step}
    /\ UNCHANGED failedAt

\* load_wordnet, the try: wn.synsets("dog") finds the corpus or raises LookupError
load_wordnet ==
    /\ pc = "load_wordnet"
    /\ probe' = IF present THEN "ok" ELSE "LookupError"
    /\ pc' = after_probe(present)
    /\ completed' = IF pc' = "download_wordnet" THEN completed
                    ELSE completed \cup {"load_wordnet"}
    /\ UNCHANGED <<corpus, present, dirExists, files, adjectives, nouns, console,
                   run, fetches, failedAt, touched, before, repeat, ulVars>>

\* load_wordnet, nltk.download("wordnet"): installs the corpus, or reports
\* failure by its return value (which is dropped), or raises
download_wordnet ==
    /\ pc = "download_wordnet"
    /\ fetches' = Append(fetches, "wordnet")
    /\ \/ /\ present' \in {TRUE, present}
          /\ pc' = "download_omw"
          /\ UNCHANGED <<failedAt>>
       \/ /\ Raise("load_wordnet")
          /\ UNCHANGED present
    /\ UNCHANGED <<corpus, dirExists, files, adjectives, nouns, console, run, probe,
                   completed, touched, before, repeat, ulVars>>

\* load_wordnet, nltk.download("omw-1.4")
download_omw ==
    /\ pc = "download_omw"
    /\ fetches' = Append(fetches, "omw-1.4")
    /\ \/ Finish("load_wordnet")
       \/ Raise("load_wordnet") /\ UNCHANGED completed
    /\ UNCHANGED <<corpus, present, dirExists, files, adjectives, nouns, console, run,
                   probe, touched, before, repeat, ulVars>>

\* adjectives = collect_adjectives(): wn.all_synsets raises LookupError when the
\* corpus is not installed, and reading it may fail; otherwise the set adjs is
\* built and handed to unique_lower in the set's iteration order
collect_adjectives ==
    /\ pc = "collect_adjectives"
    /\ \/ /\ present
          /\ \E order \in Orderings(adjs_of(corpus)) :
                adjectives' = unique_lower(order)
          /\ Finish("collect_adjectives")
       \/ /\ Raise("collect_adjectives")
          /\ UNCHANGED <<adjectives, completed>>
    /\ UNCHANGED <<corpus, present, dirExists, files, nouns, console, run, probe,
                   fetches, touched, before, repeat, ulVars>>

\* nouns = collect_nouns()
collect_nouns ==
    /\ pc = "collect_nouns"
    /\ \/ /\ present
          /\ \E order \in Orderings(nouns_of(corpus)) :
                nouns' = unique_lower(order)
          /\ Finish("collect_nouns")
       \/ /\ Raise("collect_nouns")
          /\ UNCHANGED <<nouns, completed>>
    /\ UNCHANGED <<corpus, present, dirExists, files, adjectives, console, run, probe,
                   fetches, touched, before, repeat, ulVars>>

\* out_dir.mkdir(parents=True, exist_ok=True)
mkdir ==
    /\ pc = "mkdir"
    /\ \/ /\ dirExists' = TRUE
          /\ Finish("mkdir")
       \/ /\ ~dirExists
          /\ Raise("mkdir")
          /\ UNCHANGED <<dirExists, completed>>
    /\ UNCHANGED <<corpus, present, files, adjectives, nouns, console, run, probe,
                   fetches, touched, before, repeat, ulVars>>

\* (out_dir / name).write_text("\n".join(list), encoding="utf-8")
write_file(step, name, list) ==
    /\ pc = step
    /\ \/ /\ dirExists
          /\ files' = [files EXCEPT ![name] = write_text(files[name], join(list))]
          /\ touched' = touched \cup {name}
          /\ Finish(step)
       \/ /\ \E left \in write_text_failed(files[name], join(list)) :
                /\ files' = [files EXCEPT ![name] = left]
                /\ touched' = IF left = files[name] THEN touched
                              ELSE touched \cup {name}
          /\ Raise(step)
          /\ UNCHANGED completed
    /\ UNCHANGED <<corpus, present, dirExists, adjectives, nouns, console, run, probe,
                   fetches, before, repeat, ulVars>>

write_adjectives == write_file("write_adjectives", "adjectives", adjectives)

write_nouns == write_file("write_nouns", "nouns", nouns)

\* the two print calls: the count and the destination of each list
print_summary ==
    /\ pc = "print_summary"
    /\ console' = console \o
          <<[list |-> "adjectives", count |-> Len(adjectives)],
            [list |-> "nouns", count |-> Len(nouns)]>>
    /\ Finish("print_summary")
    /\ UNCHANGED <<corpus, present, dirExists, files, adjectives, nouns, run, probe,
                   fetches, touched, before, repeat, ulVars>>

\* the script is started again: a new process, the same corpus, installation
\* and file system
Rerun ==
    /\ pc \in {"done", "aborted"}
    /\ run < MaxRuns
    /\ run' = run + 1
    /\ pc' = main_order[1]
    /\ adjectives' = <<>>
    /\ nouns' = <<>>
    /\ console' = <<>>
    /\ probe' = "none"
    /\ fetches' = <<>>
    /\ failedAt' = ""
    /\ completed' = {}
    /\ touched' = {}
    /\ before' = files
    /\ repeat' = (pc = "done")
    /\ UNCHANGED <<corpus, present, dirExists, files, ulVars>>

Next ==
    \/ load_wordnet
    \/ download_wordnet
    \/ download_omw
    \/ collect_adjectives
    \/ collect_nouns
    \/ mkdir
    \/ write_adjectives
    \/ write_nouns
    \/ print_summary
    \/ Rerun

Spec == Init /\ [][Next]_vars

\* candidate words handed to unique_lower on its own
WordUniverse ==
    {W_cat, W_Cat, W_cat_nl, W_a, W_ox, W_zebra, W_apple,
     replace(W_dogs_breath), W_hippopotamus, W_unforgettable,
     W_supercalifragil}

SeqsUpTo(S, n) == UNION {[1..k -> S] : k \in 0..n}

\* ------------------------------------------------------------------------
\* unique_lower on its own: the input is any sequence of candidate words,
\* and a second traversal order of the same candidates.
InitMainIdle ==
    /\ corpus = [ADJ |-> {}, ADJ_SAT |-> {}, NOUN |-> {}]
    /\ present = TRUE
    /\ dirExists = FALSE
    /\ files = [adjectives |-> Absent, nouns |-> Absent]
    /\ pc = "idle"
    /\ adjectives = <<>>
    /\ nouns = <<>>
    /\ console = <<>>
    /\ run = 0
    /\ probe = "none"
    /\ fetches = <<>>
    /\ failedAt = ""
    /\ completed = {}
    /\ touched = {}
    /\ before = files
    /\ repeat = FALSE

InitUL ==
    /\ InitMainIdle
    /\ ul_pc = "call"
    /\ ul_words \in SeqsUpTo(WordUniverse, MaxWords)
    /\ ul_words2 \in {[i \in 1..Len(ul_words) |-> ul_words[p[i]]] :
                        p \in Orderings(1..Len(ul_words))}
    /\ ul_out = <<>>
    /\ ul_out2 = <<>>

ApplyUniqueLower ==
    /\ ul_pc = "call"
    /\ ul_out' = unique_lower(ul_words)
    /\ ul_out2' = unique_lower(ul_words2)
    /\ ul_pc' = "done"
    /\ UNCHANGED <<ul_words, ul_words2, mainVars>>

NextUL == ApplyUniqueLower

SpecUL == InitUL /\ [][NextUL]_vars

\* ------------------------------------------------------------------------
\* Properties of unique_lower (checked under SpecUL)

\* a word made of letters a-z only, MinLen to MaxLen of them
Accepted(w) ==
    /\ MinLen <= Len(w) /\ Len(w) <= MaxLen
    /\ \A i \in 1..Len(w) : w[i] \in Letters

\* the positions of the input whose lowercased word is accepted and did not
\* occur, lowercased, at an earlier position
KeptAt(words) ==
    {i \in 1..Len(words) :
        /\ Accepted(lower(words[i]))
        /\ \A j \in 1..(i - 1) : lower(words[j]) # lower(words[i])}

\* the members of a set of positions in increasing order
RECURSIVE Ascending(_)
Ascending(P) ==
    IF P = {} THEN <<>>
    ELSE LET m == CHOOSE x \in P : \A y \in P : x <= y
         IN <<m>> \o Ascending(P \ {m})

Expected(words) ==
    LET at == Ascending(KeptAt(words))
    IN [k \in 1..Len(at) |-> lower(words[at[k]])]

\* C1: for every input sequence, unique_lower returns the lowercased words
\* that consist solely of a-z and have length 2..12, each once, in first-seen
\* order.
C1_UniqueLowerExact ==
    ul_pc = "done" => ul_out = Expected(ul_words)

Range(s) == {s[i] : i \in 1..Len(s)}
Count(s, w) == Cardinality({i \in 1..Len(s) : s[i] = w})

\* C10: for two orderings of the same candidates the two results of
\* unique_lower are permutations of each other: same members, same length,
\* each member as often in one as in the other.
C10_OrderIndependent ==
    ul_pc = "done" =>
        /\ Range(ul_out) = Range(ul_out2)
        /\ Len(ul_out) = Len(ul_out2)
        /\ \A w \in Range(ul_out) : Count(ul_out, w) = Count(ul_out2, w)

\* two orderings of candidates that collapse (Cat, cat) give results in a
\* different line order
C10_Witness ==
    /\ ul_pc = "done"
    /\ ul_words # ul_words2
    /\ ul_out # ul_out2
    /\ Len(ul_out) < Len(ul_words)
    /\ Len(ul_out) >= 2

\* ------------------------------------------------------------------------
\* Properties of a run of the script (checked under Spec)

Writes == {"write_adjectives", "write_nouns"}
FileNames == {"adjectives", "nouns"}
Terminated == pc \in {"done", "aborted"}

\* the lines of a text file: the parts between newlines, a newline at the very
\* end closing the last line rather than opening an empty one
RECURSIVE Split(_)
Split(text) ==
    IF \E i \in 1..Len(text) : text[i] = NL
    THEN LET i == CHOOSE k \in 1..Len(text) :
                    text[k] = NL /\ \A j \in 1..(k - 1) : text[j] # NL
         IN <<SubSeq(text, 1, i - 1)>> \o
            (IF i = Len(text) THEN <<>> ELSE Split(SubSeq(text, i + 1, Len(text))))
    ELSE <<text>>

Lines(text) == IF text = <<>> THEN <<>> ELSE Split(text)

\* C2: a run that follows a completed run on the same corpus leaves both
\* files byte for byte as that run left them.
C2_Idempotent ==
    (pc = "done" /\ repeat) => files = before

\* C3: a run that has ended either wrote both files or changed neither.
C3_NoPartialSuccess ==
    Terminated =>
        \/ Writes \subseteq completed
        \/ completed \cap Writes = {} /\ touched = {}

\* C3, amended: a run that has ended either wrote both files, or changed
\* neither, or failed in one of the two writes: a failed write of
\* adjectives.txt leaves nouns.txt untouched, a failed write of nouns.txt
\* leaves adjectives.txt written. A failure of loading, collecting or mkdir
\* leaves both files as they were.
C3_PartialOnlyOnWriteFailure ==
    Terminated =>
        /\ \/ Writes \subseteq completed
           \/ completed \cap Writes = {} /\ touched = {}
           \/ /\ failedAt = "write_adjectives"
              /\ completed \cap Writes = {}
              /\ touched \subseteq {"adjectives"}
           \/ /\ failedAt = "write_nouns"
              /\ completed \cap Writes = {"write_adjectives"}
              /\ "adjectives" \in touched
              /\ files.adjectives = [exists |-> TRUE, text |-> join(adjectives)]
        /\ failedAt \in {"load_wordnet", "collect_adjectives", "collect_nouns", "mkdir"}
              => files = before

\* the write of nouns.txt fails part-way: adjectives.txt is written, nouns.txt
\* holds a part of the list
C3_Witness ==
    /\ pc = "aborted"
    /\ failedAt = "write_nouns"
    /\ touched = FileNames
    /\ files.adjectives.text = join(adjectives)
    /\ files.nouns.text # join(nouns)

NoDuplicates(s) == \A i, j \in 1..Len(s) : s[i] = s[j] => i = j

\* C4: after a successful run no word is on two lines of adjectives.txt, and
\* none on two lines of nouns.txt.
C4_UniqueLines ==
    pc = "done" => \A f \in FileNames : NoDuplicates(Lines(files[f].text))

\* C5: after a successful run every line of either file is two to twelve
\* letters a-z and nothing else.
C5_CharacterClass ==
    pc = "done" =>
        \A f \in FileNames :
            \A i \in 1..Len(Lines(files[f].text)) : Accepted(Lines(files[f].text)[i])

\* C6: once the adjectives are collected, every lemma of an adjective synset
\* or of an adjective-satellite synset that passes the filter is in the
\* adjective list exactly once.
C6_Merge ==
    "collect_adjectives" \in completed =>
        \A s \in corpus :
            s.pos \in {"ADJ", "ADJ_SAT"} =>
                \A i \in 1..Len(s.lemma_names) :
                    LET w == lower(replace(s.lemma_names[i]))
                    IN (ALNUM_match(w) /\ MinLen <= Len(w) /\ Len(w) <= MaxLen)
                          => Count(adjectives, w) = 1

\* "happy" is a lemma of a satellite synset only, beside an adjective synset
C6_Witness ==
    /\ "collect_adjectives" \in completed
    /\ W_happy \in lemma_set(corpus, "ADJ_SAT")
    /\ W_happy \notin lemma_set(corpus, "ADJ")
    /\ lemma_set(corpus, "ADJ") # {}
    /\ Count(adjectives, W_happy) = 1

\* C7: when the probe found the corpus absent and the fetch did not install
\* it, the run gets no further than the first collection, which raises, and
\* the files stay as they were; each package is fetched at most once in a
\* run, and only after the probe reported the corpus absent.
C7_State ==
    /\ (probe = "LookupError" /\ ~present) =>
          /\ pc \in {"download_wordnet", "download_omw", "collect_adjectives", "aborted"}
          /\ completed \subseteq {"load_wordnet"}
          /\ files = before
          /\ adjectives = <<>> /\ nouns = <<>>
    /\ NoDuplicates(fetches)
    /\ Len(fetches) <= 2
    /\ fetches # <<>> => probe = "LookupError"

C7_Step ==
    (probe = "LookupError" /\ ~present /\ pc = "collect_adjectives")
        => (pc' = "aborted" /\ files' = files)

C7_CorpusUnavailableFatal == []C7_State /\ [][C7_Step]_vars

\* the corpus was absent, both downloads ran without installing it, and the
\* first collection raised
C7_Witness ==
    /\ pc = "aborted"
    /\ probe = "LookupError"
    /\ ~present
    /\ fetches = <<"wordnet", "omw-1.4">>
    /\ failedAt = "collect_adjectives"

\* C8: after a successful run each file holds exactly the newline-joined list
\* of that run, whatever it held before.
C8_Overwrite ==
    pc = "done" =>
        /\ files.adjectives = [exists |-> TRUE, text |-> join(adjectives)]
        /\ files.nouns = [exists |-> TRUE, text |-> join(nouns)]

\* both files held other, non-empty text when the run started
C8_Witness ==
    /\ pc = "done"
    /\ \A f \in FileNames :
          /\ before[f].exists
          /\ before[f].text # <<>>
          /\ before[f].text # files[f].text

\* C9: noun collection is attempted only after adjectives.txt was written.
C9_AdjectivesWrittenBeforeNouns ==
    pc = "collect_nouns" => "write_adjectives" \in completed

\* C9, amended: both lists are collected before either file is written, so a
\* run in which noun collection fails leaves both files as they were; a run
\* ends with adjectives.txt written and nouns.txt not only when the write of
\* nouns.txt failed.
C9_CollectBeforeWrite ==
    /\ (touched # {} \/ completed \cap Writes # {})
          => {"collect_adjectives", "collect_nouns"} \subseteq completed
    /\ failedAt = "collect_nouns" => (touched = {} /\ files = before)
    /\ (Terminated /\ completed \cap Writes = {"write_adjectives"})
          => failedAt = "write_nouns"

\* noun collection raised after the adjectives were collected
C9_Witness ==
    /\ pc = "aborted"
    /\ failedAt = "collect_nouns"
    /\ adjectives # <<>>
    /\ touched = {}

====
